---- MODULE Spec2Model ----
(***************************************************************************)
(* A model of proxy.TCPProxy (src/proxy/proxy.go): the listener lifecycle  *)
(* (Start, Close), the accept loop (Run) and the per-connection relay      *)
(* (handleConnection) with its two io.Copy tasks.  The environment is the  *)
(* operating system's socket layer, the clients that connect to the listen *)
(* address and the backend behind the target address.  A module's NewProxy *)
(* (src/kratos/proxy.go), which builds and starts a Proxy and registers    *)
(* its Close with the lifecycle, is modelled on top of it.                 *)
(***************************************************************************)
EXTENDS Naturals, Sequences, FiniteSets, TLC

\* Bounds of the model.
MaxConns ==
  2
MaxBytes ==
  2
MaxCloses ==
  2

Conns ==
  1..MaxConns
Dirs ==
  {"up", "down"}

VARIABLES
  \* TCPProxy fields and the resources behind them
  ListenAddress, \* p.ListenAddress: a host:port pair, <<>> while not constructed
  TargetAddress, \* p.TargetAddress
  listener,      \* p.listener: "nil" or "set"
  cancel,        \* p.cancel: "nil" or "set"
  cancelled,     \* the accept loop's context is done
  sock,          \* the OS listening socket: "unbound", "open", "closed"
  boundAddr,     \* the address net.Listen bound the socket to, <<>> before
  binds,         \* successful net.Listen calls
  cancels,       \* context.WithCancel calls
  sockCloses,    \* listener.Close calls
  loops,         \* accept loops launched (go p.Run)
  \* the accept loop goroutine
  lpc,           \* "none", "select", "accept", "spawn", "done"
  held,          \* the connection Accept returned, before the relay is spawned
  backlog,       \* the kernel's queue of established, not yet accepted connections
  \* the caller of Start and Close
  kpc,           \* "idle", or "closing" between p.cancel() and the listener check
  lastOp,        \* "none", "Start", "Close"
  ret,           \* what the last call returned: "none", "ok", "bindErr", "closeErr", "panic"
  panicked,      \* the process died of a nil function call
  closeReturned, \* Close has returned on a Proxy whose listener was present
  \* one entry per connection attempt
  phase,         \* "new", "refused", "queued", "dropped", "held", "dial", "relaying", "closeUp", "closed"
  late,          \* the attempt was made after Close had returned
  upCloses,      \* upstreamConn.Close calls
  downCloses,    \* downstreamConn.Close calls
  rerr,          \* what handleConnection returned: "none", "ok", "dial", "closeDown", "closeUp"
  dialled,       \* the addresses the relay called net.Dial with, in order
  \* the two copy directions of each relay
  sent,          \* bytes the source wrote
  rd,            \* bytes the copy has read from its source
  buf,           \* bytes read and not yet written
  delivered,     \* bytes written to the destination
  cend,          \* "idle", "run", "eof", "rderr", "wrerr"
  \* a module's NewProxy constructor and the lifecycle it registers with
  npc,           \* "none" (the Proxy was constructed directly), "lookup", "start", "done"
  port,          \* the container port NewProxy was made for
  endpoint,      \* what PortEndpoint returned: a host:port pair, or <<>>
  npRet,         \* what NewProxy returned: "none", "proxy", "endpointErr", "startErr"
  hooks,         \* lifecycle hooks appended
  \* the post-ready hook installed by WithPostReadyHook, for one ready container
  exposed,       \* req.ExposedPorts: a sequence of port names
  mapped,        \* what container.MappedPort gives for each port name: a nat.Port or NoPort
  hpc,           \* "none", "loop" (the hook is in its range loop), "done"
  hi,            \* the index of the loop in exposed
  endpoints,     \* the map being filled: a set of <<key, value>> pairs, one per key
  fnCalls,       \* the maps the user function was invoked with, in order
  hookRet,       \* what the hook returned: "none", "ok", "fnErr", "lookupErr"
  \* tasks that call Start on the one Proxy value at the same time
  spc,           \* per task: "none", "call", "listen", "store", "done"
  sret,          \* per task, what its Start returned: "none", "ok", "bindErr"
  \* the context the caller passes to Start and Close
  callerCtx,     \* "live" or "done" (cancelled or expired)
  \* the Fx application a module's constructors run in
  app,           \* "none", "building", "failed", "started", "stopping"
  \* one ContainerModule, as returned by BuildContainerModule
  options,       \* the options slice the returned function has captured
  calls,         \* the customizers passed to each call so far
  built          \* what each call returned: the options handed to fx.Options

addrVars ==
  <<ListenAddress, TargetAddress>>
proxyVars ==
  <<listener, cancel, cancelled, sock, boundAddr, binds, cancels, sockCloses, loops>>
loopVars ==
  <<lpc, held, backlog>>
callerVars ==
  <<kpc, lastOp, ret, panicked, closeReturned>>
connVars ==
  <<phase, late, upCloses, downCloses, rerr, dialled>>
dataVars ==
  <<sent, rd, buf, delivered, cend>>
hookVars ==
  <<exposed, mapped, hpc, hi, endpoints, fnCalls, hookRet>>
\* what belongs to the rest of the repository, not to one Proxy
raceVars ==
  <<spc, sret>>
buildVars ==
  <<options, calls, built>>
restVars ==
  <<hookVars, raceVars, callerCtx, app, buildVars>>
moduleVars ==
  <<npc, port, endpoint, npRet, hooks, restVars>>
vars ==
  <<addrVars, proxyVars, loopVars, callerVars, connVars, dataVars, moduleVars>>

\* A byte is identified by the connection, direction and position it was written at.
Byte(c, d, k) ==
  [conn |-> c, dir |-> d, seq |-> k]

IsPrefix(s, t) ==
  /\ Len(s) <= Len(t)
  /\ \A i \in 1..Len(s) : s[i] = t[i]

RECURSIVE SumLen(_, _)
SumLen(f, S) ==
  IF S = {} THEN 0
  ELSE LET x == CHOOSE y \in S : TRUE
       IN Len(f[x[1]][x[2]]) + SumLen(f, S \ {x})
TotalSent ==
  SumLen(sent, Conns \X Dirs)

\* net.JoinHostPort: the address host:p, kept as the pair of its parts.
JoinHostPort(host, p) ==
  <<host, p>>

LoopbackAddress ==
  "127.0.0.1"

\* The addresses of a Proxy that is constructed directly, as a struct literal:
\* a fixed local listen address and the backend's address.  The Proxy passes
\* them to net.Listen and net.Dial and never looks into them.
GivenListenAddress ==
  JoinHostPort(LoopbackAddress, "19000")
GivenTargetAddress ==
  JoinHostPort("localhost", "32768")

\* The zero values of the Proxy's unexported fields, no socket, no loop, no
\* call made and no connection attempted yet.
Unstarted ==
  /\ listener = "nil" /\ cancel = "nil" /\ cancelled = FALSE
  /\ sock = "unbound" /\ binds = 0 /\ cancels = 0
  /\ boundAddr = <<>>
  /\ sockCloses = 0 /\ loops = 0
  /\ lpc = "none" /\ held = 0 /\ backlog = <<>>
  /\ kpc = "idle" /\ lastOp = "none" /\ ret = "none"
  /\ panicked = FALSE /\ closeReturned = FALSE
  /\ phase = [c \in Conns |-> "new"]
  /\ late = [c \in Conns |-> FALSE]
  /\ upCloses = [c \in Conns |-> 0]
  /\ downCloses = [c \in Conns |-> 0]
  /\ rerr = [c \in Conns |-> "none"]
  /\ dialled = [c \in Conns |-> <<>>]
  /\ sent = [c \in Conns |-> [d \in Dirs |-> <<>>]]
  /\ rd = [c \in Conns |-> [d \in Dirs |-> 0]]
  /\ buf = [c \in Conns |-> [d \in Dirs |-> <<>>]]
  /\ delivered = [c \in Conns |-> [d \in Dirs |-> <<>>]]
  /\ cend = [c \in Conns |-> [d \in Dirs |-> "idle"]]

\* No post-ready hook is installed.
NoHook ==
  /\ exposed = <<>> /\ mapped = <<>> /\ hpc = "none" /\ hi = 0
  /\ endpoints = {} /\ fnCalls = <<>> /\ hookRet = "none"

\* The tasks of the concurrent Start calls.
Tasks ==
  {"a", "b"}

\* Nobody calls Start concurrently.
NoRace ==
  /\ spc = [t \in Tasks |-> "none"] /\ sret = [t \in Tasks |-> "none"]

\* No ContainerModule is involved.
NoBuild ==
  /\ options = <<>> /\ calls = <<>> /\ built = <<>>

\* Nothing of the rest of the repository is at work, and the caller's context
\* is live.
RestIdle ==
  /\ NoHook
  /\ NoRace
  /\ NoBuild
  /\ callerCtx = "live" /\ app = "none"

\* No module constructor is involved.
NoModule ==
  /\ npc = "none" /\ port = <<>> /\ endpoint = <<>> /\ npRet = "none" /\ hooks = 0

\* A Proxy constructed with its two addresses, not started.
Init ==
  /\ ListenAddress = GivenListenAddress /\ TargetAddress = GivenTargetAddress
  /\ Unstarted
  /\ NoModule
  /\ RestIdle

----------------------------------------------------------------------------
\* TCPProxy.Start

\* Faulty variant: the guard is missing, every Start binds.
StartGuardNever ==
  FALSE
\* if p.listener != nil { return nil }
StartGuard ==
  listener # "nil"

\* Faulty variant: the listener is stored before the error is looked at.
StartBindFailedStores ==
  /\ listener' = "set"
  /\ UNCHANGED <<cancel, cancelled, sock, boundAddr, binds, cancels, sockCloses, loops>>
  /\ UNCHANGED loopVars
\* net.Listen failed: return err, nothing assigned
StartBindFailed ==
  /\ UNCHANGED <<listener, cancel, cancelled, sock, boundAddr, binds, cancels, sockCloses, loops>>
  /\ UNCHANGED loopVars

\* The call p.Start(ctx), by whoever makes it.
StartCall ==
  /\ ~panicked
  /\ kpc = "idle"
  /\ lastOp' = "Start"
  /\ UNCHANGED <<kpc, panicked, closeReturned>>
  /\ IF StartGuard
       THEN /\ ret' = "ok"
            /\ UNCHANGED <<proxyVars, loopVars>>
       ELSE \E ok \in BOOLEAN :
                 IF ok
                   THEN /\ listener' = "set" /\ sock' = "open" /\ binds' = binds + 1
                        /\ boundAddr' = ListenAddress
                        /\ cancel' = "set" /\ cancels' = cancels + 1 /\ cancelled' = FALSE
                        /\ loops' = loops + 1 /\ lpc' = "select"
                        /\ ret' = "ok"
                        /\ UNCHANGED <<sockCloses, held, backlog>>
                   ELSE /\ ret' = "bindErr"
                        /\ StartBindFailed
  /\ UNCHANGED <<connVars, dataVars>>

\* Start called on a Proxy value by its owner.
Start ==
  /\ StartCall
  /\ UNCHANGED <<addrVars, moduleVars>>

----------------------------------------------------------------------------
\* TCPProxy.Close

\* p.cancel(): calling a nil CancelFunc panics
CloseCancel ==
  /\ ~panicked
  /\ kpc = "idle" /\ sockCloses < MaxCloses
  /\ lastOp' = "Close"
  /\ IF cancel = "nil"
       THEN /\ panicked' = TRUE /\ ret' = "panic"
            /\ UNCHANGED <<kpc, cancelled>>
       ELSE /\ cancelled' = TRUE /\ kpc' = "closing" /\ ret' = "none"
            /\ UNCHANGED panicked
  /\ UNCHANGED <<listener, cancel, sock, boundAddr, binds, cancels, sockCloses, loops>>
  /\ UNCHANGED <<closeReturned, loopVars, connVars, dataVars>>
  /\ UNCHANGED <<addrVars, moduleVars>>

\* Faulty variant: Close cancels the loop and leaves the socket bound.
ListenerCloseNoop ==
  /\ UNCHANGED <<sock, backlog, phase>>
\* What listener.Close does to the socket and to the connections queued on it.
ListenerClose ==
  /\ sock' = "closed"
  /\ backlog' = <<>>
  /\ phase' = [c \in Conns |-> IF phase[c] = "queued" THEN "dropped" ELSE phase[c]]

\* Faulty variant: Close closes the upstream connection of the relays in flight.
CloseRelaysAbort ==
  /\ upCloses' = [c \in Conns |-> IF phase[c] \in {"dial", "relaying"} THEN 1 ELSE upCloses[c]]
  /\ UNCHANGED <<late, downCloses, rerr, dialled, dataVars>>
\* What Close does to the relays in flight: nothing, it holds no reference to them.
CloseRelays ==
  /\ UNCHANGED <<late, upCloses, downCloses, rerr, dialled, dataVars>>

\* if p.listener == nil { return nil }; return p.listener.Close()
CloseListener ==
  /\ ~panicked
  /\ kpc = "closing"
  /\ kpc' = "idle"
  /\ IF listener = "nil"
       THEN /\ ret' = "ok"
            /\ UNCHANGED <<sock, sockCloses, backlog, phase, closeReturned>>
       ELSE /\ sockCloses' = sockCloses + 1
            /\ closeReturned' = TRUE
            /\ IF sock = "open"
                 THEN ret' = "ok" /\ ListenerClose
                 ELSE ret' = "closeErr" /\ UNCHANGED <<sock, backlog, phase>>
  /\ CloseRelays
  /\ UNCHANGED <<listener, cancel, cancelled, boundAddr, binds, cancels, loops>>
  /\ UNCHANGED <<lpc, held, lastOp, panicked>>
  /\ UNCHANGED <<addrVars, moduleVars>>

----------------------------------------------------------------------------
\* TCPProxy.Run

\* Faulty variant: the loop's context is derived from the context passed to Start.
LoopContextDoneWithCaller ==
  cancelled \/ callerCtx = "done"
\* cancelCtx comes from context.WithCancel(context.Background()): it is done
\* when p.cancel was called, and only then.
LoopContextDone ==
  cancelled

\* Faulty variant: the loop does not look at its context.
RunSelectIgnoresCancel ==
  /\ ~panicked
  /\ lpc = "select"
  /\ lpc' = "accept"
  /\ UNCHANGED <<held, backlog, proxyVars, callerVars, connVars, dataVars>>
  /\ UNCHANGED <<addrVars, moduleVars>>
\* select { case <-ctx.Done(): return ctx.Err(); default: Accept }
RunSelect ==
  /\ ~panicked
  /\ lpc = "select"
  /\ lpc' = IF LoopContextDone THEN "done" ELSE "accept"
  /\ UNCHANGED <<held, backlog, proxyVars, callerVars, connVars, dataVars>>
  /\ UNCHANGED <<addrVars, moduleVars>>

\* p.listener.Accept() returns a queued connection, or an error once the socket is closed
RunAccept ==
  /\ ~panicked
  /\ lpc = "accept"
  /\ \/ /\ sock = "closed"
        /\ lpc' = "done"
        /\ UNCHANGED <<held, backlog, phase>>
     \/ /\ sock = "open" /\ backlog # <<>>
        /\ held' = Head(backlog) /\ backlog' = Tail(backlog)
        /\ phase' = [phase EXCEPT ![Head(backlog)] = "held"]
        /\ lpc' = "spawn"
  /\ UNCHANGED <<late, upCloses, downCloses, rerr, dialled>>
  /\ UNCHANGED <<proxyVars, callerVars, dataVars>>
  /\ UNCHANGED <<addrVars, moduleVars>>

\* Faulty variant: the loop goes on to its next round after an Accept error.
RunAcceptErrorRetries ==
  /\ ~panicked
  /\ lpc = "accept" /\ sock = "open"
  /\ lpc' = "select"
  /\ UNCHANGED <<held, backlog, proxyVars, callerVars, connVars, dataVars>>
  /\ UNCHANGED <<addrVars, moduleVars>>
\* Accept fails for a reason other than the socket being closed: return err
RunAcceptError ==
  /\ ~panicked
  /\ lpc = "accept" /\ sock = "open"
  /\ lpc' = "done"
  /\ UNCHANGED <<held, backlog, proxyVars, callerVars, connVars, dataVars>>
  /\ UNCHANGED <<addrVars, moduleVars>>

\* Faulty variant: p.handleConnection(conn) without go, the loop goes on when no
\* relay is at work.
RunSpawnWaits ==
  /\ ~panicked
  /\ lpc = "spawn"
  /\ \A c \in Conns : phase[c] \notin {"dial", "relaying", "closeUp"}
  /\ phase' = [phase EXCEPT ![held] = "dial"]
  /\ held' = 0 /\ lpc' = "select"
  /\ UNCHANGED <<backlog, late, upCloses, downCloses, rerr, dialled>>
  /\ UNCHANGED <<proxyVars, callerVars, dataVars>>
  /\ UNCHANGED <<addrVars, moduleVars>>
\* go p.handleConnection(conn)
RunSpawn ==
  /\ ~panicked
  /\ lpc = "spawn"
  /\ phase' = [phase EXCEPT ![held] = "dial"]
  /\ held' = 0 /\ lpc' = "select"
  /\ UNCHANGED <<backlog, late, upCloses, downCloses, rerr, dialled>>
  /\ UNCHANGED <<proxyVars, callerVars, dataVars>>
  /\ UNCHANGED <<addrVars, moduleVars>>

----------------------------------------------------------------------------
\* TCPProxy.handleConnection

\* Faulty variant: Run waits for handleConnection and returns its error.
DialFailedStopsLoop ==
  "done"
\* The accept loop after a relay returned an error: as before, the relay is a
\* goroutine of its own and its result is dropped.
DialFailedLoop ==
  lpc

\* Faulty variant: the relay dials the Proxy's own listen address.
DialAddressListen ==
  ListenAddress
\* net.Dial("tcp", p.TargetAddress)
DialAddress ==
  TargetAddress

\* Faulty variant: a relay whose dial failed dials again.
AfterDialFailureRetry ==
  "dial"
\* if err != nil { return err }: the relay is over
AfterDialFailure ==
  "closed"

\* downstreamConn, err := net.Dial("tcp", p.TargetAddress); if err != nil { return err }
Dial(c) ==
  /\ ~panicked
  /\ phase[c] = "dial"
  /\ dialled' = [dialled EXCEPT ![c] = Append(@, DialAddress)]
  /\ \E ok \in BOOLEAN :
       IF ok
         THEN /\ phase' = [phase EXCEPT ![c] = "relaying"]
              /\ cend' = [cend EXCEPT ![c] = [d \in Dirs |-> "run"]]
              /\ UNCHANGED <<rerr, lpc>>
         ELSE /\ phase' = [phase EXCEPT ![c] = AfterDialFailure]
              /\ rerr' = [rerr EXCEPT ![c] = "dial"]
              /\ lpc' = DialFailedLoop
              /\ UNCHANGED cend
  /\ UNCHANGED <<late, upCloses, downCloses, sent, rd, buf, delivered>>
  /\ UNCHANGED <<held, backlog, proxyVars, callerVars>>
  /\ UNCHANGED <<addrVars, moduleVars>>

\* Faulty variant: every relay copies from the first connection pair.
CopySrcShared(c) ==
  1
\* The connection pair the io.Copy tasks of relay c read from: the relay's own.
CopySrc(c) ==
  c

\* Faulty variant: a chunk lands in front of what was already received.
ForwardPrepend(got, chunk) ==
  chunk \o got
\* io.Copy appends what it read to what the destination already received.
Forward(got, chunk) ==
  got \o chunk

\* io.Copy: Read from the source returns what the connection gives: an I/O error,
\* bytes the source wrote, or end-of-stream once the source has ended its stream
\* and nothing it wrote is unread.
CopyRead(c, d) ==
  /\ ~panicked
  /\ cend[c][d] = "run" /\ buf[c][d] = <<>>
  /\ LET s == CopySrc(c)
         avail == Len(sent[s][d]) - rd[s][d]
     IN \/ /\ cend' = [cend EXCEPT ![c][d] = "rderr"]
           /\ UNCHANGED <<rd, buf>>
        \/ /\ avail > 0
           /\ \E n \in 1..avail :
                /\ buf' = [buf EXCEPT ![c][d] = SubSeq(sent[s][d], rd[s][d] + 1, rd[s][d] + n)]
                /\ rd' = [rd EXCEPT ![s][d] = rd[s][d] + n]
           /\ UNCHANGED cend
        \/ /\ avail = 0
           /\ cend' = [cend EXCEPT ![c][d] = "eof"]
           /\ UNCHANGED <<rd, buf>>
  /\ UNCHANGED <<sent, delivered>>
  /\ UNCHANGED <<proxyVars, loopVars, callerVars, connVars>>
  /\ UNCHANGED <<addrVars, moduleVars>>

\* io.Copy: Write to the destination succeeds or fails with an I/O error.
CopyWrite(c, d) ==
  /\ ~panicked
  /\ cend[c][d] = "run" /\ buf[c][d] # <<>>
  /\ \E ok \in BOOLEAN :
       IF ok
         THEN /\ delivered' = [delivered EXCEPT ![c][d] = Forward(delivered[c][d], buf[c][d])]
              /\ UNCHANGED cend
         ELSE /\ cend' = [cend EXCEPT ![c][d] = "wrerr"]
              /\ UNCHANGED delivered
  /\ buf' = [buf EXCEPT ![c][d] = <<>>]
  /\ UNCHANGED <<sent, rd>>
  /\ UNCHANGED <<proxyVars, loopVars, callerVars, connVars>>
  /\ UNCHANGED <<addrVars, moduleVars>>

\* wg.Wait() has returned: both copies are over
BothCopiesDone(c) ==
  \A d \in Dirs : cend[c][d] \in {"eof", "rderr", "wrerr"}

\* if err := downstreamConn.Close(); err != nil { return err }
CloseDownstream(c) ==
  /\ ~panicked
  /\ phase[c] = "relaying" /\ BothCopiesDone(c)
  /\ downCloses' = [downCloses EXCEPT ![c] = downCloses[c] + 1]
  /\ \E err \in BOOLEAN :
       IF err
         THEN /\ phase' = [phase EXCEPT ![c] = "closed"]
              /\ rerr' = [rerr EXCEPT ![c] = "closeDown"]
         ELSE /\ phase' = [phase EXCEPT ![c] = "closeUp"]
              /\ UNCHANGED rerr
  /\ UNCHANGED <<late, upCloses, dialled>>
  /\ UNCHANGED <<proxyVars, loopVars, callerVars, dataVars>>
  /\ UNCHANGED <<addrVars, moduleVars>>

\* if err := upstreamConn.Close(); err != nil { return err }; return nil
CloseUpstream(c) ==
  /\ ~panicked
  /\ phase[c] = "closeUp"
  /\ upCloses' = [upCloses EXCEPT ![c] = upCloses[c] + 1]
  /\ phase' = [phase EXCEPT ![c] = "closed"]
  /\ \E err \in BOOLEAN :
       rerr' = [rerr EXCEPT ![c] = IF err THEN "closeUp" ELSE "ok"]
  /\ UNCHANGED <<late, downCloses, dialled>>
  /\ UNCHANGED <<proxyVars, loopVars, callerVars, dataVars>>
  /\ UNCHANGED <<addrVars, moduleVars>>

----------------------------------------------------------------------------
\* The environment: clients, the backend and the kernel.

\* A client connects to the listen address: queued on an open socket, refused otherwise.
Connect(c) ==
  /\ ~panicked
  /\ phase[c] = "new"
  /\ \A b \in Conns : b < c => phase[b] # "new"
  /\ late' = [late EXCEPT ![c] = closeReturned]
  /\ IF sock = "open"
       THEN /\ phase' = [phase EXCEPT ![c] = "queued"]
            /\ backlog' = Append(backlog, c)
       ELSE /\ phase' = [phase EXCEPT ![c] = "refused"]
            /\ UNCHANGED backlog
  /\ UNCHANGED <<upCloses, downCloses, rerr, dialled, lpc, held>>
  /\ UNCHANGED <<proxyVars, callerVars, dataVars>>
  /\ UNCHANGED <<addrVars, moduleVars>>

\* The source of direction d writes one more byte.  What a client writes while its
\* connection is queued or dialled for reaches the relay when its copies start, and
\* what is written after a copy has ended reaches nobody: writes are modelled while
\* the copy that reads them runs.  A write that arrives while the copy is busy
\* writing is read after that write, like one that arrives right after it.
Send(c, d) ==
  /\ ~panicked
  /\ phase[c] = "relaying" /\ cend[c][d] = "run" /\ buf[c][d] = <<>>
  /\ TotalSent < MaxBytes
  /\ sent' = [sent EXCEPT ![c][d] = Append(@, Byte(c, d, Len(@) + 1))]
  /\ UNCHANGED <<rd, buf, delivered, cend>>
  /\ UNCHANGED <<proxyVars, loopVars, callerVars, connVars>>
  /\ UNCHANGED <<addrVars, moduleVars>>

----------------------------------------------------------------------------
\* A module's NewProxy (src/kratos/proxy.go) and the lifecycle that stops the Proxy.

\* The module's container ports, as nat.Port values: number and protocol.
ContainerPorts ==
  {<<"4433", "tcp">>, <<"4434", "tcp">>}

\* nat.Port.Port(): the number without the protocol.
PortOf(p) ==
  p[1]

\* What the container runtime may report as the mapped endpoint of a port.
MappedEndpoints ==
  {JoinHostPort("localhost", "32768"), JoinHostPort("localhost", "32769")}

\* The module's dependency graph being built: NewProxy is about to be invoked
\* for one of the module's ports, and no Proxy value exists yet.
InitModule ==
  /\ ListenAddress = <<>> /\ TargetAddress = <<>>
  /\ Unstarted
  /\ npc = "lookup" /\ port \in ContainerPorts /\ endpoint = <<>>
  /\ npRet = "none" /\ hooks = 0
  /\ NoHook /\ NoRace /\ NoBuild
  /\ callerCtx = "live" /\ app = "building"

\* endpoint, err := Container.PortEndpoint(ctx, port, ""); on an error return nil, err;
\* otherwise build the TCPProxy value from the loopback address and the endpoint
NewProxyLookup ==
  /\ npc = "lookup"
  /\ \/ /\ npRet' = "endpointErr" /\ npc' = "done"
        /\ UNCHANGED <<addrVars, endpoint>>
     \/ \E e \in MappedEndpoints :
          /\ endpoint' = e
          /\ ListenAddress' = JoinHostPort(LoopbackAddress, PortOf(port))
          /\ TargetAddress' = e
          /\ npc' = "start"
          /\ UNCHANGED npRet
  /\ UNCHANGED <<port, hooks, restVars>>
  /\ UNCHANGED <<proxyVars, loopVars, callerVars, connVars, dataVars>>

\* Faulty variant: the hook is appended before Start is called.
HooksAlways(started) ==
  hooks + 1
\* p.Lifecycle.Append(fx.Hook{...}) is reached only when Start returned nil
HooksAfterStart(started) ==
  IF started THEN hooks + 1 ELSE hooks

\* if err := proxy.Start(ctx); err != nil { return nil, err };
\* p.Lifecycle.Append(fx.Hook{OnStart, OnStop}); return &proxy, nil
NewProxyStart ==
  /\ npc = "start"
  /\ StartCall
  /\ hooks' = HooksAfterStart(ret' = "ok")
  /\ npRet' = IF ret' = "ok" THEN "proxy" ELSE "startErr"
  /\ npc' = "done"
  /\ UNCHANGED <<addrVars, port, endpoint, restVars>>

\* Every other frame of the module's application leaves these alone.
appFrame ==
  <<addrVars, proxyVars, loopVars, callerVars, connVars, dataVars,
    npc, port, endpoint, npRet, hooks, hookVars, raceVars, callerCtx, buildVars>>

\* Every constructor of the application returned without an error and the
\* application starts: the lifecycle runs the appended OnStart hooks, which
\* do nothing.
AppStart ==
  /\ app = "building" /\ npc = "done" /\ npRet = "proxy"
  /\ app' = "started"
  /\ UNCHANGED appFrame

\* A constructor of the application returned an error, this NewProxy or one
\* invoked after it (New, Actualize, the module's other NewProxy): the
\* application never starts, and a lifecycle that was never started runs no
\* OnStop hook.
AppFailsToStart ==
  /\ app = "building" /\ npc = "done"
  /\ app' = "failed"
  /\ UNCHANGED appFrame

\* The started application is asked to stop.
AppStop ==
  /\ app = "started"
  /\ app' = "stopping"
  /\ UNCHANGED appFrame

\* The lifecycle stops: it runs each appended OnStop hook once, and the hook
\* calls Close on the Proxy that NewProxy returned.
OnStop ==
  /\ app = "stopping"
  /\ npc = "done" /\ hooks >= 1 /\ sockCloses = 0
  /\ CloseCancel

\* The OnStop hooks have returned and the application has stopped.
AppStopped ==
  /\ app = "stopping" /\ kpc = "idle" /\ sockCloses >= hooks
  /\ app' = "stopped"
  /\ UNCHANGED appFrame

\* The module's Proxy from NewProxy to the lifecycle's stop, with its accept
\* loop, the clients that connect to it and the dials of their relays.
NextModule ==
     \/ NewProxyLookup
     \/ NewProxyStart
     \/ AppStart
     \/ AppFailsToStart
     \/ AppStop
     \/ OnStop
     \/ AppStopped
     \/ CloseListener
     \/ RunSelect
     \/ RunAccept
     \/ RunSpawn
     \/ \E c \in Conns : Connect(c)
     \/ \E c \in Conns : Dial(c)

SpecModule ==
  InitModule /\ [][NextModule]_vars

----------------------------------------------------------------------------
\* WithPostReadyHook (src/main.go): the PostReadies hook it appends to the request,
\* run by the container runtime once the container is ready.

MaxPorts ==
  2

\* Port names a request may expose.
PortNames ==
  {"5432/tcp", "8080/tcp", "9000/tcp"}

\* Host ports the runtime may have mapped a container port to, as nat.Port values.
HostPorts ==
  {<<"32768", "tcp">>, <<"32769", "tcp">>}

\* MappedPort returns an error for this port.
NoPort ==
  <<>>

\* The sequences over S of length n.
SeqsOfLen(S, n) ==
  [1..n -> S]

\* The keys of the map m.
Keys(m) ==
  {e[1] : e \in m}

\* Faulty variant: the value keeps the protocol of the mapped port.
EndpointValueWithProto(p) ==
  <<"localhost", p>>
\* fmt.Sprintf("localhost:%s", p.Port())
EndpointValue(p) ==
  <<"localhost", PortOf(p)>>

\* endpoints[key] = value
MapPut(m, key, value) ==
  {e \in m : e[1] # key} \cup {<<key, value>>}

\* A container has become ready and the runtime invokes the hook: the request
\* exposes any ports, with repetitions, and the container has a mapping for
\* some of them.
InitHook ==
  /\ ListenAddress = GivenListenAddress /\ TargetAddress = GivenTargetAddress
  /\ Unstarted
  /\ NoModule
  /\ \E n \in 0..MaxPorts : exposed \in SeqsOfLen(PortNames, n)
  /\ mapped \in [PortNames -> HostPorts \cup {NoPort}]
  /\ hpc = "loop" /\ hi = 1
  /\ endpoints = {} /\ fnCalls = <<>> /\ hookRet = "none"
  /\ NoRace /\ NoBuild
  /\ callerCtx = "live" /\ app = "none"

\* One round of: for _, port := range req.ExposedPorts { p, err := MappedPort(port);
\* if err != nil { return err }; endpoints[port] = "localhost:" + p.Port() }
HookLookup ==
  /\ hpc = "loop" /\ hi <= Len(exposed)
  /\ LET name == exposed[hi]
     IN IF mapped[name] = NoPort
          THEN /\ hookRet' = "lookupErr" /\ hpc' = "done"
               /\ UNCHANGED <<hi, endpoints>>
          ELSE /\ endpoints' = MapPut(endpoints, name, EndpointValue(mapped[name]))
               /\ hi' = hi + 1
               /\ UNCHANGED <<hookRet, hpc>>
  /\ UNCHANGED <<exposed, mapped, fnCalls>>
  /\ UNCHANGED <<npc, port, endpoint, npRet, hooks, raceVars, callerCtx, app, buildVars>>
  /\ UNCHANGED <<addrVars, proxyVars, loopVars, callerVars, connVars, dataVars>>

\* return fn(endpoints): the user function returns nil or an error
HookInvoke ==
  /\ hpc = "loop" /\ hi > Len(exposed)
  /\ fnCalls' = Append(fnCalls, endpoints)
  /\ \E r \in {"ok", "fnErr"} : hookRet' = r
  /\ hpc' = "done"
  /\ UNCHANGED <<exposed, mapped, hi, endpoints>>
  /\ UNCHANGED <<npc, port, endpoint, npRet, hooks, raceVars, callerCtx, app, buildVars>>
  /\ UNCHANGED <<addrVars, proxyVars, loopVars, callerVars, connVars, dataVars>>

NextHook ==
     \/ HookLookup
     \/ HookInvoke

SpecHook ==
  InitHook /\ [][NextHook]_vars

----------------------------------------------------------------------------
\* BuildContainerModule (src/main.go): the ContainerModule it returns, called
\* any number of times.

MaxCalls ==
  2
MaxValues ==
  2

\* Customizers a caller may pass; NilCustomizer is a nil value among them.
Customizers ==
  {"WithUsername", "WithPassword"}
NilCustomizer ==
  "nil"

\* The label the module was built with.
Label ==
  "postgres"

\* The options BuildContainerModule was given: the module's constructors.
BaseOptions ==
  <<[kind |-> "provide", value |-> "New", group |-> ""],
    [kind |-> "provide", value |-> "Actualize", group |-> ""]>>

\* fx.Supply(fx.Annotate(v, fx.As(...), fx.ResultTags(`group:"<label>"`)))
Supply(v) ==
  [kind |-> "supply", value |-> v, group |-> Label]

\* for _, v := range values { if v == nil { continue }; options = append(options, Supply(v)) }
RECURSIVE AppendSupplies(_, _)
AppendSupplies(opts, values) ==
  IF values = <<>> THEN opts
  ELSE AppendSupplies(
         IF Head(values) = NilCustomizer THEN opts ELSE Append(opts, Supply(Head(values))),
         Tail(values))

\* BuildContainerModule has returned: the function it returned holds the base options.
InitBuild ==
  /\ ListenAddress = GivenListenAddress /\ TargetAddress = GivenTargetAddress
  /\ Unstarted
  /\ NoModule
  /\ NoHook /\ NoRace
  /\ callerCtx = "live" /\ app = "none"
  /\ options = BaseOptions /\ calls = <<>> /\ built = <<>>

\* One call of the ContainerModule with any customizers: the loop appends to the
\* captured options variable, and the call returns fx.Options(options...).
ModuleCall ==
  /\ Len(calls) < MaxCalls
  /\ \E n \in 0..MaxValues :
       \E values \in SeqsOfLen(Customizers \cup {NilCustomizer}, n) :
         /\ options' = AppendSupplies(options, values)
         /\ built' = Append(built, options')
         /\ calls' = Append(calls, values)
  /\ UNCHANGED <<npc, port, endpoint, npRet, hooks, hookVars, raceVars, callerCtx, app>>
  /\ UNCHANGED <<addrVars, proxyVars, loopVars, callerVars, connVars, dataVars>>

NextBuild ==
     \/ ModuleCall

SpecBuild ==
  InitBuild /\ [][NextBuild]_vars

----------------------------------------------------------------------------
\* TCPProxy.Start called by two tasks at once on one Proxy value.  Start takes
\* no lock, so each call is the sequence of its accesses to the Proxy and to
\* the operating system: the read of p.listener, net.Listen, and the stores
\* with the launch of the loop.

\* Two tasks are about to call Start on a Proxy that is not started.
InitRace ==
  /\ ListenAddress = GivenListenAddress /\ TargetAddress = GivenTargetAddress
  /\ Unstarted
  /\ NoModule
  /\ NoHook /\ NoBuild
  /\ callerCtx = "live" /\ app = "none"
  /\ spc = [t \in Tasks |-> "call"] /\ sret = [t \in Tasks |-> "none"]

\* if p.listener != nil { return nil }.  The read is not synchronised with the
\* other task's store: it sees nil while nothing was stored, and either value
\* once the other task has stored the listener.
StartRead(t) ==
  /\ spc[t] = "call"
  /\ \E seen \in (IF listener = "nil" THEN {"nil"} ELSE {"nil", "set"}) :
       IF seen = "set"
         THEN /\ spc' = [spc EXCEPT ![t] = "done"]
              /\ sret' = [sret EXCEPT ![t] = "ok"]
         ELSE /\ spc' = [spc EXCEPT ![t] = "listen"]
              /\ UNCHANGED sret
  /\ UNCHANGED <<npc, port, endpoint, npRet, hooks, hookVars, callerCtx, app, buildVars>>
  /\ UNCHANGED <<addrVars, proxyVars, loopVars, callerVars, connVars, dataVars>>

\* listener, err := net.Listen("tcp", p.ListenAddress); if err != nil { return err }.
\* The bind fails when the address is in use, that is when the other task's
\* listener holds it, and succeeds otherwise.
StartListen(t) ==
  /\ spc[t] = "listen"
  /\ IF sock = "open"
       THEN /\ spc' = [spc EXCEPT ![t] = "done"]
            /\ sret' = [sret EXCEPT ![t] = "bindErr"]
            /\ UNCHANGED <<sock, boundAddr, binds>>
       ELSE /\ sock' = "open" /\ boundAddr' = ListenAddress /\ binds' = binds + 1
            /\ spc' = [spc EXCEPT ![t] = "store"]
            /\ UNCHANGED sret
  /\ UNCHANGED <<listener, cancel, cancelled, cancels, sockCloses, loops>>
  /\ UNCHANGED <<npc, port, endpoint, npRet, hooks, hookVars, callerCtx, app, buildVars>>
  /\ UNCHANGED <<addrVars, loopVars, callerVars, connVars, dataVars>>

\* p.listener = listener; p.cancel = cancelFunc; go p.Run(cancelCtx); return nil
StartStore(t) ==
  /\ spc[t] = "store"
  /\ listener' = "set" /\ cancel' = "set" /\ cancels' = cancels + 1
  /\ cancelled' = FALSE
  /\ loops' = loops + 1 /\ lpc' = "select"
  /\ spc' = [spc EXCEPT ![t] = "done"]
  /\ sret' = [sret EXCEPT ![t] = "ok"]
  /\ UNCHANGED <<sock, boundAddr, binds, sockCloses, held, backlog>>
  /\ UNCHANGED <<npc, port, endpoint, npRet, hooks, hookVars, callerCtx, app, buildVars>>
  /\ UNCHANGED <<addrVars, callerVars, connVars, dataVars>>

\* The two Start calls, the loop that one of them launches, the clients that
\* connect and the dials of their relays.
NextRace ==
     \/ \E t \in Tasks : StartRead(t)
     \/ \E t \in Tasks : StartListen(t)
     \/ \E t \in Tasks : StartStore(t)
     \/ RunSelect
     \/ RunAccept
     \/ RunSpawn
     \/ \E c \in Conns : Connect(c)
     \/ \E c \in Conns : Dial(c)

SpecRace ==
  InitRace /\ [][NextRace]_vars

----------------------------------------------------------------------------
\* The Proxy's control: Start, Close, the accept loop and the relays' lifecycle,
\* with clients and a backend that connect, end their streams and fail but
\* write no payload (what the relays do to payload is SpecData's part).
Next ==
     \/ Start
     \/ CloseCancel
     \/ CloseListener
     \/ RunSelect
     \/ RunAccept
     \/ RunAcceptError
     \/ RunSpawn
     \/ \E c \in Conns : Dial(c)
     \/ \E c \in Conns, d \in Dirs : CopyRead(c, d)
     \/ \E c \in Conns : CloseDownstream(c)
     \/ \E c \in Conns : CloseUpstream(c)
     \/ \E c \in Conns : Connect(c)

Spec ==
  Init /\ [][Next]_vars

\* The listener's lifecycle and the accept loop, with relays that dial and then
\* stay in their copies for ever: what the loop and Close do does not depend on
\* how a relay goes on (no relay step touches the loop, the socket or the
\* cancellation signal).
NextLive ==
     \/ Start
     \/ CloseCancel
     \/ CloseListener
     \/ RunSelect
     \/ RunAccept
     \/ RunAcceptError
     \/ RunSpawn
     \/ \E c \in Conns : Dial(c)
     \/ \E c \in Conns : Connect(c)

\* NextLive with the scheduling the Go runtime gives: the accept loop goroutine
\* takes its next step when it can (its select, an Accept that can return,
\* the go statement), and a Close call that has cancelled the loop goes on to
\* its listener check.  Nothing is assumed of the clients, the backend, the
\* relays or of the caller making further calls.
SpecLive ==
  /\ Init /\ [][NextLive]_vars
  /\ WF_vars(RunSelect) /\ WF_vars(RunAccept) /\ WF_vars(RunSpawn)
  /\ WF_vars(CloseListener)

\* Spec with relays that are scheduled and whose connections end: a relay's
\* dial returns, each copy's Read returns (here, without payload, with the
\* end-of-stream or the error of its source), and a relay whose copies are
\* over goes on to its closes.
SpecRelayLive ==
  /\ Init /\ [][Next]_vars
  /\ \A c \in Conns :
       /\ WF_vars(Dial(c))
       /\ WF_vars(CloseDownstream(c)) /\ WF_vars(CloseUpstream(c))
       /\ \A d \in Dirs : WF_vars(CopyRead(c, d))

\* The context the caller handed to Start and hands to Close is cancelled or expires.
CallerCtxDone ==
  /\ callerCtx = "live"
  /\ callerCtx' = "done"
  /\ UNCHANGED <<npc, port, endpoint, npRet, hooks, hookVars, raceVars, app, buildVars>>
  /\ UNCHANGED <<addrVars, proxyVars, loopVars, callerVars, connVars, dataVars>>

\* NextLive with a caller whose context may end at any moment, before, between
\* and after its calls.
NextCtx ==
     \/ Start
     \/ CloseCancel
     \/ CloseListener
     \/ RunSelect
     \/ RunAccept
     \/ RunAcceptError
     \/ RunSpawn
     \/ \E c \in Conns : Dial(c)
     \/ \E c \in Conns : Connect(c)
     \/ CallerCtxDone

SpecCtx ==
  Init /\ [][NextCtx]_vars

\* The relays at work behind a Proxy that is started and left running, with
\* payload, up to the end of their copies: the specification of the claims about
\* the bytes they forward.  (What a relay does once both copies have ended, and
\* Close, are Spec's part; neither touches a running copy.)
NextData ==
     \/ Start
     \/ RunSelect
     \/ RunAccept
     \/ RunSpawn
     \/ \E c \in Conns : Dial(c)
     \/ \E c \in Conns, d \in Dirs : CopyRead(c, d)
     \/ \E c \in Conns, d \in Dirs : CopyWrite(c, d)
     \/ \E c \in Conns : Connect(c)
     \/ \E c \in Conns, d \in Dirs : Send(c, d)

SpecData ==
  Init /\ [][NextData]_vars

----------------------------------------------------------------------------
\* The state of relay c: its position, its connections and its two copies.
RelayState(c) ==
  <<phase[c], upCloses[c], downCloses[c], rerr[c],
    rd[c], buf[c], delivered[c], cend[c]>>

\* Relay c is Dialing or Relaying.
InFlight(c) ==
  phase[c] \in {"dial", "relaying"}

\* C1: in each direction of each relay, what the destination has received is at
\* every moment a prefix of what the source wrote, and all of it once the copy
\* has ended on end-of-stream.
C1_ByteFidelity ==
  \A c \in Conns, d \in Dirs :
    /\ IsPrefix(delivered[c][d], sent[c][d])
    /\ cend[c][d] = "eof" => delivered[c][d] = sent[c][d]

C1_Witness ==
  \E c \in Conns, d \in Dirs :
    cend[c][d] = "eof" /\ Len(sent[c][d]) >= 2 /\ delivered[c][d] = sent[c][d]

\* C2: every byte a relay holds or has delivered in a direction was written on
\* that relay's own connection, in that direction.
C2_ConnectionIsolation ==
  \A c \in Conns, d \in Dirs :
    /\ \A i \in 1..Len(delivered[c][d]) :
         delivered[c][d][i].conn = c /\ delivered[c][d][i].dir = d
    /\ \A i \in 1..Len(buf[c][d]) :
         buf[c][d][i].conn = c /\ buf[c][d][i].dir = d

C2_Witness ==
  \E b, c \in Conns :
    /\ b # c /\ phase[b] = "relaying" /\ phase[c] = "relaying"
    /\ \E d \in Dirs : delivered[b][d] # <<>>
    /\ \E d \in Dirs : delivered[c][d] # <<>>

\* C3: whatever Start and Close calls were made, at most one listener was bound,
\* one cancellation signal created and one accept loop launched; a Start that
\* leaves the Proxy with a listener returned success.
C3_IdempotentStart ==
  /\ binds <= 1 /\ cancels <= 1 /\ loops <= 1
  /\ (lastOp = "Start" /\ listener = "set") => ret = "ok"

\* Start has returned on a Proxy whose listener was present (it was closed before).
C3_Witness ==
  lastOp = "Start" /\ ret = "ok" /\ sockCloses >= 1 /\ binds = 1

\* C4: Close on a Proxy without listener and cancellation signal returns success.
C4_CloseUnstarted ==
  (lastOp = "Close" /\ listener = "nil" /\ kpc = "idle") => (ret = "ok" /\ ~panicked)

\* C5: once Close has returned, the socket is closed and nothing is queued on it,
\* so that Accept cannot succeed again, and every connection attempt made since
\* was refused: it was never accepted and no relay exists for it.
C5_PostCloseRefusal ==
  closeReturned =>
    /\ sock = "closed" /\ backlog = <<>>
    /\ \A c \in Conns : phase[c] # "queued" /\ (late[c] => phase[c] = "refused")

C5_Witness ==
  \E c \in Conns : late[c] /\ phase[c] = "refused"

\* C6: no step of Close changes anything of a relay that is Dialing or Relaying
\* (its connections stay open, its copies go on), and Close returns while such
\* relays exist.
C6_CloseLeavesRelays ==
  [][kpc' # kpc => \A c \in Conns : InFlight(c) => RelayState(c)' = RelayState(c)]_vars

C6_Witness ==
  /\ closeReturned /\ kpc = "idle"
  /\ \E c \in Conns : phase[c] = "relaying" /\ upCloses[c] = 0 /\ downCloses[c] = 0
                      /\ cend[c]["up"] = "run"
  /\ \E c \in Conns : phase[c] = "dial"

\* C7: a Start that returns the bind error leaves the Proxy without listener,
\* cancellation signal and accept loop, and the next Start that succeeds has
\* bound the listener.
C7_BindFailure ==
  [][/\ ret' = "bindErr" =>
          /\ listener' = "nil" /\ cancel' = "nil" /\ sock' = "unbound"
          /\ loops' = 0 /\ lpc' = "none" /\ binds' = 0
     /\ (ret = "bindErr" /\ ret' = "ok") =>
          /\ binds' = binds + 1 /\ listener' = "set" /\ lpc' = "select"]_vars

C7_Witness ==
  ret = "bindErr" /\ lastOp = "Start" /\ listener = "nil"

\* C8: a relay that ended on a dial failure has closed its upstream connection
\* and never had a downstream connection.
C8_DialFailureClosesUpstream ==
  \A c \in Conns :
    rerr[c] = "dial" =>
      /\ phase[c] = "closed" /\ upCloses[c] = 1
      /\ downCloses[c] = 0 /\ \A d \in Dirs : cend[c][d] = "idle"

\* Relay c fails in this step: its dial, one of its copies or one of its closes.
RelayFails(c) ==
  \/ rerr[c] = "none" /\ rerr'[c] \in {"dial", "closeDown", "closeUp"}
  \/ \E d \in Dirs : cend[c][d] = "run" /\ cend'[c][d] \in {"rderr", "wrerr"}

\* C9: a step in which a relay fails (its dial, a copy or a close) leaves the
\* accept loop, its cancellation signal, the listening socket with its queue and
\* every other relay as they were.
C9_FailureIsolation ==
  [][\A c \in Conns :
       RelayFails(c) =>
         /\ UNCHANGED <<lpc, held, backlog, sock, cancelled, panicked>>
         /\ \A b \in Conns \ {c} : RelayState(b)' = RelayState(b)]_vars

\* One relay has failed on its dial, a later one on a copy and on a close, and
\* the loop is in Accept on the open socket.
C9_Witness ==
  /\ \E b, c \in Conns :
       /\ b < c /\ rerr[b] = "dial" /\ rerr[c] = "closeDown"
       /\ \E d \in Dirs : cend[c][d] = "rderr"
  /\ lpc = "accept" /\ sock = "open"

\* C10: a relay closes a connection only after both copies have ended, each at
\* most once, and a relay that has ended after its copies has closed both.
C10_RelayTeardown ==
  \A c \in Conns :
    /\ upCloses[c] <= 1 /\ downCloses[c] <= 1
    /\ (upCloses[c] + downCloses[c] > 0) => BothCopiesDone(c)
    /\ (phase[c] = "closed" /\ BothCopiesDone(c)) =>
         (upCloses[c] = 1 /\ downCloses[c] = 1)

\* C11: a relay whose close of one connection failed has still closed the other:
\* after a failed downstream close the upstream connection is closed, and after
\* a failed upstream close the downstream connection is.
C11_TeardownToleratesCloseFailure ==
  \A c \in Conns :
    /\ rerr[c] = "closeDown" => (downCloses[c] = 1 /\ upCloses[c] = 1)
    /\ rerr[c] = "closeUp" => (downCloses[c] = 1 /\ upCloses[c] = 1)

\* C12: the accept loop's next step never depends on a relay: whatever the
\* relays are doing, the loop at its select can go on, the loop in Accept on the
\* open socket takes a queued connection, and the loop holding an accepted
\* connection hands it to a relay of its own and returns to its select.
C12_AcceptLoopNeverWaits ==
  /\ lpc = "select" => ENABLED RunSelect
  /\ (lpc = "accept" /\ sock = "open" /\ backlog # <<>>) => ENABLED RunAccept
  /\ lpc = "spawn" => ENABLED RunSpawn

\* The first relay is still Relaying, its copies running, the second connection
\* was accepted meanwhile and has its relay, and the loop is back in Accept.
C12_Witness ==
  /\ phase[1] = "relaying" /\ \A d \in Dirs : cend[1][d] = "run"
  /\ phase[2] = "dial"
  /\ lpc = "accept" /\ sock = "open"

\* C13: the listener field is set exactly when an accept loop was launched and
\* Close has not returned since; it is nil before the first Start and nil again
\* after Close.
C13_ListenerPresence ==
  (listener = "set") <=> (loops >= 1 /\ ~closeReturned)

\* C14: listener.Close is called at most once on each bound listener, and never
\* on a socket that is already closed: no Close call returns the error of a
\* closed listener.
C14_ListenerReleasedOnce ==
  /\ sockCloses <= binds
  /\ ret # "closeErr"

\* C15: once the copy from the target to the client of an established relay has
\* ended on the target's end-of-stream or error, the relay can go on to close
\* its connections, whatever the client does: its teardown does not wait for
\* anything from the client.
C15_TargetGoneClosesClient ==
  \A c \in Conns :
    (phase[c] = "relaying" /\ cend[c]["down"] \in {"eof", "rderr"}) =>
      ENABLED CloseDownstream(c)

\* C16: once Close has triggered the cancellation signal of a started Proxy, the
\* accept loop eventually ends, also from an Accept that was pending.
C16_LoopTerminatesAfterClose ==
  cancelled ~> (lpc = "done")

\* Close has returned and the loop has ended, with a relay still in flight.
C16_Witness ==
  /\ cancelled /\ closeReturned /\ sock = "closed" /\ lpc = "done"
  /\ \E c \in Conns : phase[c] \in {"dial", "relaying"}

\* C17: the only error a call ever returns is the bind failure, and it is Start
\* that returns it: Close returns no error.
C17_OnlyBindErrorsReturned ==
  /\ ret \in {"none", "ok", "bindErr", "panic"}
  /\ ret = "bindErr" => lastOp = "Start"

\* C18: every step moves a relay along Dialing -> Relaying -> Closed, or from
\* Dialing to Closed when its dial failed: a relay becomes Dialing only when the
\* loop hands it its accepted connection, a Closed relay stays Closed, and no
\* relay has dialled more than once.  (Relaying covers the relay from its
\* successful dial to its last close.)
C18_RelayStateMachine ==
  [][\A c \in Conns :
       /\ phase'[c] = "dial" => phase[c] \in {"held", "dial"}
       /\ phase[c] = "dial" => phase'[c] \in {"dial", "relaying", "closed"}
       /\ (phase[c] = "dial" /\ phase'[c] = "closed") => rerr'[c] = "dial"
       /\ phase[c] = "relaying" => phase'[c] \in {"relaying", "closeUp", "closed"}
       /\ phase[c] = "closeUp" => phase'[c] \in {"closeUp", "closed"}
       /\ phase[c] = "closed" => phase'[c] = "closed"
       /\ Len(dialled'[c]) <= 1
       /\ (Len(dialled'[c]) > Len(dialled[c])) => phase'[c] # "dial"]_vars

\* One relay went through Relaying to Closed, another from Dialing to Closed.
C18_Witness ==
  \E b, c \in Conns :
    /\ phase[b] = "closed" /\ rerr[b] = "ok" /\ Len(dialled[b]) = 1
    /\ phase[c] = "closed" /\ rerr[c] = "dial" /\ Len(dialled[c]) = 1

\* C19: after any sequence of Start and Close calls, loop steps and relay steps
\* the Proxy's two addresses are the ones it was constructed with, the socket was
\* bound to that listen address and every relay has dialled that target address.
C19_AddressesImmutable ==
  /\ ListenAddress = GivenListenAddress
  /\ TargetAddress = GivenTargetAddress
  /\ boundAddr \in {<<>>, GivenListenAddress}
  /\ \A c \in Conns : \A i \in 1..Len(dialled[c]) : dialled[c][i] = GivenTargetAddress

\* Start, Close and a Start again were called, and two relays have dialled.
C19_Witness ==
  /\ closeReturned /\ lastOp = "Start" /\ boundAddr = GivenListenAddress
  /\ \A c \in Conns : dialled[c] = <<GivenTargetAddress>>
  /\ \E c \in Conns : phase[c] = "closed"

C21_PostReadyHook ==
  /\ Len(fnCalls) <= 1
  /\ hookRet = "lookupErr" <=>
       (hpc = "done" /\ \E i \in 1..Len(exposed) : mapped[exposed[i]] = NoPort)
  /\ hookRet = "lookupErr" => fnCalls = <<>>
  /\ hookRet \in {"ok", "fnErr"} =>
       /\ Len(fnCalls) = 1
       /\ Keys(fnCalls[1]) = {exposed[i] : i \in 1..Len(exposed)}
       /\ Cardinality(fnCalls[1]) = Cardinality(Keys(fnCalls[1]))
       /\ \A e \in fnCalls[1] : e[2] = <<"localhost", mapped[e[1]][1]>>

\* The user function was invoked for a request that exposes two different ports.
C21_Witness ==
  /\ hookRet = "ok" /\ Len(fnCalls) = 1 /\ Cardinality(fnCalls[1]) = 2

\* C22: an Accept that returns without a connection ends the loop, and a loop
\* that has ended stays ended: it takes no connection off the queue and starts
\* no relay.
C22_AcceptErrorTerminal ==
  [][/\ (lpc = "accept" /\ lpc' # "accept" /\ held' = 0) => lpc' = "done"
     /\ lpc = "done" =>
          /\ lpc' = "done" /\ held' = held
          /\ \A c \in Conns :
               /\ phase'[c] = "held" => phase[c] = "held"
               /\ phase'[c] = "dial" => phase[c] = "dial"]_vars

\* The loop has ended on an Accept error that Close did not cause, and a
\* connection made since waits in the queue of the open socket.
C22_Witness ==
  /\ lpc = "done" /\ ~cancelled /\ sock = "open" /\ sockCloses = 0
  /\ backlog # <<>>

\* C23: once the cancellation signal is triggered the loop starts no Accept: an
\* Accept under way may still return (and its connection get its relay), and
\* from its select the loop can only end.
C23_CancelObservedNextIteration ==
  [][cancelled =>
       /\ lpc' = "accept" => lpc = "accept"
       /\ lpc = "select" => lpc' \in {"select", "done"}]_vars

\* The signal is triggered, Close has not closed the socket yet, and the loop
\* has ended although a connection waits in the queue.
C23_Witness ==
  /\ cancelled /\ kpc = "closing" /\ sock = "open"
  /\ lpc = "done" /\ backlog # <<>>

\* C24: a relay that is Relaying, and whose two sources end, eventually is Closed
\* with both copies over and both connections closed.
C24_RelayTerminates ==
  \A c \in Conns :
    (phase[c] = "relaying") ~>
      (phase[c] = "closed" /\ BothCopiesDone(c) /\ upCloses[c] = 1 /\ downCloses[c] = 1)

\* C25: whenever the accept loop of a started Proxy has ended and no Close call
\* is under way, the listening socket is closed: no socket stays bound, queueing
\* connections, with no loop to accept them.
C25_LoopEndedSocketClosed ==
  (lpc = "done" /\ kpc = "idle") => sock = "closed"

\* C26: once Close has returned on a started Proxy, whatever Start calls follow,
\* the Proxy has the one listener, the one cancellation signal (triggered) and
\* the one accept loop it had, its socket is closed, a Start that was called
\* since has returned success, and no connection attempted since was accepted.
C26_NotRestartable ==
  closeReturned =>
    /\ binds = 1 /\ cancels = 1 /\ loops = 1
    /\ listener = "set" /\ sock = "closed" /\ cancelled
    /\ (lastOp = "Start" => ret = "ok")
    /\ \A c \in Conns : late[c] => phase[c] \notin {"queued", "held", "dial", "relaying", "closeUp", "closed"}

\* Start was called after Close and returned success, the loop has ended, and a
\* client that connected afterwards was refused.
C26_Witness ==
  /\ closeReturned /\ lastOp = "Start" /\ ret = "ok" /\ lpc = "done"
  /\ \E c \in Conns : late[c] /\ phase[c] = "refused"

\* C27: when both concurrent Start calls have returned, both returned success,
\* at most one listener was bound and at most one loop launched, and the
\* listener that was bound is the one the Proxy holds.
C27_ConcurrentStart ==
  (\A t \in Tasks : spc[t] = "done") =>
    /\ \A t \in Tasks : sret[t] = "ok"
    /\ binds <= 1 /\ loops <= 1
    /\ binds = 1 => listener = "set"

\* C28: the caller's context has no effect on the Proxy.  The loop ends only at
\* its select after Close has triggered the cancellation signal, or in Accept
\* on an error; only Close triggers the signal; the end of the caller's context
\* changes nothing of the Proxy, its loop and its relays; and a Close call closes
\* the listener whatever the state of the context passed to it.
C28_ContextArgumentsIgnored ==
  [][/\ (lpc # "done" /\ lpc' = "done") =>
          ((lpc = "select" /\ cancelled) \/ lpc = "accept")
     /\ (~cancelled /\ cancelled') => lastOp' = "Close"
     /\ (kpc = "closing" /\ kpc' = "idle" /\ listener = "set") =>
          (sock' = "closed" /\ sockCloses' = sockCloses + 1)
     /\ callerCtx' # callerCtx =>
          UNCHANGED <<proxyVars, loopVars, callerVars, connVars>>]_vars

\* The caller's context has ended, and Close has closed the socket and returned
\* success, with a relay of the Proxy still dialling.
C28_Witness ==
  /\ callerCtx = "done" /\ closeReturned /\ ret = "ok" /\ sock = "closed"
  /\ \E c \in Conns : phase[c] = "dial"

\* C29: what each call of the ContainerModule returned is the base options
\* followed by one supply per non-nil customizer of that call, in order, and
\* nothing else.
C29_ModuleCallsIndependent ==
  \A k \in 1..Len(built) :
    LET given == SelectSeq(calls[k], LAMBDA v : v # NilCustomizer)
    IN built[k] = BaseOptions \o [i \in 1..Len(given) |-> Supply(given[i])]

\* C30: once the application has stopped or has failed to start, no listener
\* that NewProxy bound during construction is still bound.
C30_ListenerClosedWhenAppEnds ==
  app \in {"stopped", "failed"} => sock \in {"unbound", "closed"}

====
